---- MODULE Spec2Model ----
(***************************************************************************)
(* The AVIF conversion service: the FastAPI handlers of main.py            *)
(* (health_check, convert_image) and the conversion pipeline of            *)
(* converter.py (convert_to_avif, convert_jpeg_to_avif,                    *)
(* convert_heic_to_avif_cli, monitor_subprocess_memory).                   *)
(*                                                                         *)
(* Both handlers are `async def` coroutines on one event loop: a handler   *)
(* runs without interruption from one await to the next, and the only      *)
(* await of the service is `await image.read()` in convert_image.  The     *)
(* variable `loop` holds the request whose coroutine is running.           *)
(* convert_to_avif can also be called directly, as a library function      *)
(* (this is how a format tag other than the handler's two reaches it).     *)
(* It is synchronous and shares no state with another call, so a direct    *)
(* call is run to its end on the same thread, like a handler.              *)
(***************************************************************************)
EXTENDS Integers, Sequences, FiniteSets, TLC

VARIABLES
    host,       \* the host: tool executable |-> how it behaves when run (the
                \* tools installed do not change while the service runs)
    loop,       \* the request whose coroutine runs on the event loop, 0 if none
    tracing,    \* tracemalloc's process-wide "is tracing" flag
    pc,         \* request |-> position in the code
    entry,      \* request |-> entry point called
    mime,       \* request |-> content type of the upload (convert_image)
    tag,        \* request |-> file_type handed to convert_to_avif
    data,       \* request |-> input bytes
    exists,     \* request |-> its TemporaryDirectory exists on disk
    mk,         \* request |-> number of scratch directories created
    rm,         \* request |-> number of scratch directory removals
    files,      \* request |-> files in its scratch directory: {<<name, bytes>>}
    written,    \* request |-> names of all files it ever wrote
    attempts,   \* request |-> stages handed to the executor, in order
    launched,   \* request |-> child processes Popen actually started
    exc,        \* request |-> exception in flight ("none" if none)
    result,     \* request |-> bytes returned by convert_to_avif
    resp,       \* request |-> response of the HTTP handler
    fs,         \* the file-system operations that fail on this host, each with
                \* the errno it fails with: {<<operation, errno>>}
    availMB,    \* available system memory in MB, as get_system_memory reports it
    warned,     \* request |-> the LOW MEMORY WARNING was logged for its call
    tstart,     \* request |-> number of tracemalloc.start() calls it made
    tstop,      \* request |-> number of tracemalloc.stop() calls it made
    \* One call of monitor_subprocess_memory(process_name, cmd, **kwargs)
    mpc,        \* position in monitor_subprocess_memory
    mcmd,       \* cmd[0], the executable
    mkw,        \* the names of the keyword arguments handed on to Popen
    child,      \* the child process: state, output it has yet to write, exit code
    pipe,       \* bytes in the pipe of the captured stream, not yet read
    current,    \* current_memory, the last sample of the loop (0: not assigned)
    maxMemory,  \* max_memory (0: not assigned)
    samples,    \* every value get_memory_usage() returned during the call
    mexc,       \* the exception in flight in the executor ("none" if none)
    mret,       \* what the call returned or what its exception carries
    \* One computation of the sizes and of the compression ratio
    spc,        \* position in the computation
    inLen,      \* len(data), the input
    outLen,     \* len(output_data), the output artifact
    inputSize,  \* input_size, in hundredths of a MB (-1: not computed)
    outputSize, \* output_size, in hundredths of a MB (-1: not computed)
    ratio,      \* the logged compression, in tenths of a percent
    sexc        \* the exception the computation raised ("none" if none)

vars == <<host, loop, tracing, pc, entry, mime, tag, data, exists, mk, rm,
          files, written, attempts, launched, exc, result, resp, availMB, warned,
          tstart, tstop, fs, mpc, mcmd, mkw, child, pipe, current, maxMemory, samples,
          mexc, mret, spc, inLen, outLen, inputSize, outputSize, ratio, sexc>>

(***************************************************************************)
(* Bounds and inputs                                                       *)
(***************************************************************************)
NumRequests == 2
Requests == 1..NumRequests

\* Strings that the code transforms are sequences of character codes.
JPEG == <<106, 112, 101, 103>>
HEIC == <<104, 101, 105, 99>>
Tags == { JPEG,
          <<74, 80, 69, 71>>,      \* "JPEG"
          <<72, 101, 73, 99>>,     \* "HeIc"
          <<112, 110, 103>> }      \* "png"

MimeTypes == {"image/jpeg", "image/heic", "image/png"}
Data == {<<97>>}                \* b"a"
NoBytes == <<>>
Raw(d) == <<"raw", d>>

\* How an executable of the host behaves when it is run.
Missing == [present |-> FALSE, code |-> 0, secs |-> 0]
Ok      == [present |-> TRUE,  code |-> 0, secs |-> 1]
Fails   == [present |-> TRUE,  code |-> 1, secs |-> 1]
Slow    == [present |-> TRUE,  code |-> 0, secs |-> 9]
Tools == {"avifenc", "convert"}
\* Available system memory around the warning threshold
AvailSamples == {99, 100}
\* (the service runs convert only through the executor, where what convert would
\* do is what avifenc would do: it is here or it is not)
Hosts == { h \in [Tools -> {Missing, Ok, Fails, Slow}] : h["convert"] \in {Missing, Ok} }
\* The file-system operations of a conversion, in the order it makes them, with
\* the ways each is made to fail while the scratch directory is in place:
\*   mkdtemp  no room on the device, or the base directory for temporary files
\*            is not there: no directory is made
\*   open     no file descriptor left: no file is made
\*   write    the file size limit is reached: the file open() made stays, empty
\*   rmtree   no file descriptor left to list the directory: the removal fails
\*            at its first step and nothing is removed
Faults == { <<"mkdtemp", "ENOSPC">>, <<"mkdtemp", "ENOENT">>,
            <<"open", "EMFILE">>,
            <<"write", "EFBIG">>,
            <<"rmtree", "EMFILE">> }
OpsOf(f) == { x[1] : x \in f }
\* The sets of faults a conversion can tell apart: an operation fails in one way;
\* nothing is written or removed when no directory is made, and write() is not
\* reached when open() fails
FsFaults == { f \in SUBSET Faults :
                /\ \A x, y \in f : x[1] = y[1] => x = y
                /\ "mkdtemp" \in OpsOf(f) => Cardinality(f) = 1
                /\ ~({"open", "write"} \subseteq OpsOf(f)) }

\* The exception class Python raises for an errno: OSError(errno, ...) is an
\* instance of the subclass the errno is mapped to, of OSError itself when the
\* errno has no subclass
OSErrorOf(errno) ==
    CASE errno = "ENOENT" -> "FileNotFoundError"
      [] errno \in {"EACCES", "EPERM"} -> "PermissionError"
      [] errno = "EEXIST" -> "FileExistsError"
      [] errno = "ENOTDIR" -> "NotADirectoryError"
      [] errno = "EISDIR" -> "IsADirectoryError"
      [] errno \in {"ENOSPC", "EMFILE", "EFBIG"} -> "OSError"

(***************************************************************************)
(* Pure helpers                                                            *)
(***************************************************************************)
\* str.lower() on the characters the tags use
Lower(s) == [i \in DOMAIN s |-> IF s[i] \in 65..90 THEN s[i] + 32 ELSE s[i]]

DispatchDefaultJpeg(file_type) ==
    IF Lower(file_type) = HEIC THEN "heic" ELSE "jpeg"

\* convert_to_avif's if / elif / else on file_type.lower()
Dispatch(file_type) ==
    IF Lower(file_type) = JPEG THEN "jpeg"
    ELSE IF Lower(file_type) = HEIC THEN "heic"
    ELSE "unsupported"

\* The stages as the two pipelines call them: the executor named at the call
\* site, the command and the keyword arguments.
JpegStageViaConvert ==
    [name |-> "avifenc", via |-> "monitor_subprocess_memory", exe |-> "convert",
     input |-> "input.jpg", output |-> "output.avif",
     kwargs |-> {"capture_output", "text", "check"}]

JpegStage ==
    [name |-> "avifenc", via |-> "monitor_subprocess_memory", exe |-> "avifenc",
     input |-> "input.jpg", output |-> "output.avif",
     kwargs |-> {"capture_output", "text", "check"}]
HeicDecodeStage ==
    [name |-> "ImageMagick", via |-> "monitor_subprocess_memory", exe |-> "convert",
     input |-> "input.heic", output |-> "intermediate.jpg",
     kwargs |-> {"capture_output", "check"}]
HeicEncodeStage ==
    [name |-> "avifenc", via |-> "run_with_memory_monitoring", exe |-> "avifenc",
     input |-> "intermediate.jpg", output |-> "output.avif",
     kwargs |-> {"capture_output", "text", "check"}]

\* Names converter.py imports or defines: a call of any other name raises NameError.
DefinedNames == {"subprocess", "tempfile", "Path", "psutil", "os", "gc", "logging",
                 "traceback", "resource",
                 "get_memory_usage", "get_system_memory", "get_memory_limit",
                 "log_memory_state", "get_file_size_mb", "monitor_subprocess_memory",
                 "convert_jpeg_to_avif", "convert_heic_to_avif_cli", "convert_to_avif"}

\* The keyword parameters subprocess.Popen accepts.
PopenKeywords == {"bufsize", "executable", "stdin", "stdout", "stderr", "preexec_fn",
                  "close_fds", "shell", "cwd", "env", "universal_newlines",
                  "startupinfo", "creationflags", "restore_signals",
                  "start_new_session", "pass_fds", "user", "group", "extra_groups",
                  "encoding", "errors", "text", "umask", "pipesize", "process_group"}

\* subprocess.Popen(cmd, **kwargs): an unexpected keyword is a TypeError raised
\* before anything is executed; a missing executable is a FileNotFoundError.
Popen(kwargs, behaviour) ==
    IF ~(kwargs \subseteq PopenKeywords) THEN "TypeError"
    ELSE IF ~behaviour.present THEN "FileNotFoundError"
    ELSE "launched"

\* `except subprocess.CalledProcessError` in convert_jpeg_to_avif logs and
\* re-raises; any other exception passes through: either way the with block is left.
JpegOnStageErrorRetry(e) == "jpeg_stage"

JpegOnStageError(e) == "jpeg_exit"

\* The except clause of convert_heic_to_avif_cli: a CalledProcessError becomes a
\* RuntimeError, any other exception passes through unchanged.
HeicOnStageError(e) == IF e = "CalledProcessError" THEN "RuntimeError" ELSE e

\* TemporaryDirectory.__exit__: the removal of the directory is attempted
\* whatever exception is in flight when the with block is left (ExitTempDir has
\* what the attempt does).
Cleanup(e) == TRUE

\* convert_to_avif, line 253: `if system_mem['available'] < 100`
LowMemoryWarning(available) == available < 100

\* base64.b64encode(avif_data).decode('utf-8')
B64(bytes) == <<"b64", bytes>>

ConvertResponseAlwaysSuccess(e, bytes) ==
    [code |-> 200, detail |-> "", success |-> TRUE, avifenc |-> FALSE,
     content |-> B64(bytes)]

\* convert_image, lines 92-127: the except clause answers HTTP 500, otherwise the
\* response carries success and the base64 text of the bytes
ConvertResponse(e, bytes) ==
    IF e # "none"
    THEN [code |-> 500, detail |-> "Conversion failed.", success |-> FALSE,
          avifenc |-> FALSE, content |-> <<>>]
    ELSE [code |-> 200, detail |-> "", success |-> TRUE, avifenc |-> FALSE,
          content |-> B64(bytes)]

StopOnSuccessOnly(e) == e = "none"

\* convert_image calls tracemalloc.stop() in the except clause (line 96) and
\* after a conversion that returned (line 101)
StopsTracing(e) == TRUE

AvailableIfLaunched(b) == b.present

HealthTimeout == 5

\* health_check's probe: subprocess.run(["avifenc", "--version"], timeout=5) and
\* its two except clauses.
AvifencAvailable(b) ==
    IF ~b.present THEN FALSE                \* FileNotFoundError: except Exception
    ELSE IF b.secs > HealthTimeout THEN FALSE    \* subprocess.TimeoutExpired
    ELSE b.code = 0

MB == 1024 * 1024

\* n / d rounded to the nearest integer, a tie to the even neighbour: round()
\* of a float that holds n / d exactly (len / 1024 / 1024 is exact)
RoundHalfEven(n, d) ==
    LET q == n \div d
        rem == n % d
    IN IF 2 * rem > d THEN q + 1
       ELSE IF 2 * rem < d THEN q
       ELSE IF q % 2 = 0 THEN q ELSE q + 1

\* get_file_size_mb: round(len(data) / 1024 / 1024, 2), in hundredths of a MB
get_file_size_mb(len) == RoundHalfEven(len * 100, MB)

\* The text :.1f gives for n / d computed in floating point, in tenths: the
\* nearest tenth; where the exact value lies halfway between two tenths the
\* rounding error of the float decides, and either neighbour can come out
FormatTenths(n, d) ==
    LET q == n \div d
        rem == n % d
    IN IF 2 * rem > d THEN {q + 1}
       ELSE IF 2 * rem < d THEN {q}
       ELSE {q, q + 1}

\* `(1-output_size/input_size)*100:.1f`: the division raises when input_size is
\* 0.0; otherwise the percentage is logged.  The outcomes the expression can have.
Compression(output_size, input_size) ==
    IF input_size = 0
    THEN {[raises |-> "ZeroDivisionError", tenths |-> 0]}
    ELSE {[raises |-> "none", tenths |-> t] :
             t \in FormatTenths((input_size - output_size) * 1000, input_size)}

\* len() of the bytes of a file or of a result
ByteLen(bytes) == IF bytes = <<>> THEN 0 ELSE Len(bytes[2])

NoResp == [code |-> 0, detail |-> "", success |-> FALSE, avifenc |-> FALSE,
           content |-> NoBytes]

\* The bytes of a file of a scratch directory, NoBytes if there is no such file
ReadFile(dir, name) ==
    IF \E f \in dir : f[1] = name THEN (CHOOSE f \in dir : f[1] = name)[2] ELSE NoBytes
HasFile(dir, name) == \E f \in dir : f[1] = name

(***************************************************************************)
(* Initial state: the service is up, no request has arrived                *)
(***************************************************************************)
NoChild == [state |-> "none", left |-> 0, code |-> 0]
NoReturn == [returncode |-> 0, cmd |-> "", stderr |-> 0]

\* No request has arrived
ServiceIdle ==
    /\ loop = 0
    /\ tracing = FALSE
    /\ pc = [r \in Requests |-> "idle"]
    /\ entry = [r \in Requests |-> "none"]
    /\ mime = [r \in Requests |-> ""]
    /\ tag = [r \in Requests |-> <<>>]
    /\ data = [r \in Requests |-> <<>>]
    /\ exists = [r \in Requests |-> FALSE]
    /\ mk = [r \in Requests |-> 0]
    /\ rm = [r \in Requests |-> 0]
    /\ files = [r \in Requests |-> {}]
    /\ written = [r \in Requests |-> {}]
    /\ attempts = [r \in Requests |-> <<>>]
    /\ launched = [r \in Requests |-> <<>>]
    /\ exc = [r \in Requests |-> "none"]
    /\ result = [r \in Requests |-> NoBytes]
    /\ resp = [r \in Requests |-> NoResp]
    /\ warned = [r \in Requests |-> FALSE]
    /\ tstart = [r \in Requests |-> 0]
    /\ tstop = [r \in Requests |-> 0]

\* monitor_subprocess_memory is not being called on its own
MonitorIdle ==
    /\ mpc = "idle" /\ mcmd = "" /\ mkw = {} /\ child = NoChild /\ pipe = 0
    /\ current = 0 /\ maxMemory = 0 /\ samples = {} /\ mexc = "none"
    /\ mret = NoReturn

\* No size is being computed on its own
SizesIdle ==
    /\ spc = "idle" /\ inLen = 0 /\ outLen = 0 /\ inputSize = -1 /\ outputSize = -1
    /\ ratio = 0 /\ sexc = "none"

Init ==
    /\ host \in Hosts
    /\ fs \in FsFaults
    /\ availMB \in AvailSamples
    /\ ServiceIdle
    /\ MonitorIdle
    /\ SizesIdle

\* The operation fails on this host, and the exception it raises then
FailsAt(op) == op \in OpsOf(fs)
RaisedAt(op) == OSErrorOf((CHOOSE x \in fs : x[1] = op)[2])

inputVars == <<entry, mime, tag, data>>
diskVars == <<exists, mk, rm, files, written>>
procVars == <<attempts, launched>>
traceVars == <<tracing, tstart, tstop>>
monVars == <<mpc, mcmd, mkw, child, pipe, current, maxMemory, samples, mexc, mret>>
sizeVars == <<spc, inLen, outLen, inputSize, outputSize, ratio, sexc>>
\* What no step of the service changes
env == <<host, fs, availMB, monVars, sizeVars>>
\* The variables of the requests
svcVars == <<loop, traceVars, pc, inputVars, diskVars, procVars, exc, result, resp,
             warned>>

\* A request is inside convert_to_avif
InConversion(r) ==
    pc[r] \in {"cta_start", "jpeg_enter", "jpeg_write", "jpeg_stage", "jpeg_after",
               "jpeg_exit", "heic_enter", "heic_write", "heic_stage", "heic_after",
               "heic_exit", "mon_popen", "mon_poll", "mon_except", "cta_finish"}

\* A step of request r may run: its code holds the thread, from one await to the
\* next
Holds(r) == loop = r

(***************************************************************************)
(* The environment                                                         *)
(***************************************************************************)
\* A client sends a request, or a caller is about to call convert_to_avif.
\* Requests are numbered in the order of their arrival.
Arrive(r) ==
    /\ pc[r] = "idle"
    /\ IF r = 1 THEN TRUE ELSE pc[r - 1] # "idle"
    /\ pc' = [pc EXCEPT ![r] = "ready"]
    /\ \/ \E m \in MimeTypes, d \in Data :
            /\ entry' = [entry EXCEPT ![r] = "convert_image"]
            /\ mime' = [mime EXCEPT ![r] = m]
            /\ data' = [data EXCEPT ![r] = d]
            /\ tag' = tag
       \/ /\ entry' = [entry EXCEPT ![r] = "health_check"]
          /\ UNCHANGED <<mime, data, tag>>
       \/ \E t \in Tags, d \in Data :
            /\ entry' = [entry EXCEPT ![r] = "convert_to_avif"]
            /\ tag' = [tag EXCEPT ![r] = t]
            /\ data' = [data EXCEPT ![r] = d]
            /\ mime' = mime
    /\ UNCHANGED <<env, warned, loop, traceVars, diskVars, procVars, exc, result, resp>>

(***************************************************************************)
(* main.py: health_check                                                   *)
(***************************************************************************)
\* lines 42-53: the handler starts and runs the probe (a blocking subprocess.run)
HcProbe(r) ==
    /\ pc[r] = "ready" /\ entry[r] = "health_check"
    /\ loop = 0
    /\ loop' = r
    /\ resp' = [resp EXCEPT ![r] = [NoResp EXCEPT !.avifenc = AvifencAvailable(host["avifenc"])]]
    /\ pc' = [pc EXCEPT ![r] = "hc_return"]
    /\ UNCHANGED <<env, warned, traceVars, inputVars, diskVars, procVars, exc, result>>

\* lines 55-69: memory info (its failure is caught) and the response
HcReturn(r) ==
    /\ pc[r] = "hc_return" /\ loop = r
    /\ resp' = [resp EXCEPT ![r] =
                 [@ EXCEPT !.code = 200,
                           !.detail = IF resp[r].avifenc THEN "healthy"
                                                         ELSE "unhealthy"]]
    /\ loop' = 0
    /\ pc' = [pc EXCEPT ![r] = "done"]
    /\ UNCHANGED <<env, warned, traceVars, inputVars, diskVars, procVars, exc, result>>

(***************************************************************************)
(* main.py: convert_image                                                  *)
(***************************************************************************)
\* lines 72-85: the content type check, up to `await image.read()`
CiStart(r) ==
    /\ pc[r] = "ready" /\ entry[r] = "convert_image"
    /\ loop = 0
    /\ IF mime[r] \notin {"image/jpeg", "image/heic"}
       THEN /\ resp' = [resp EXCEPT ![r] =
                         [NoResp EXCEPT !.code = 400,
                            !.detail = "Only JPEG and HEIC images are supported."]]
            /\ pc' = [pc EXCEPT ![r] = "done"]
            /\ tag' = tag
       ELSE /\ tag' = [tag EXCEPT ![r] = IF mime[r] = "image/jpeg" THEN JPEG ELSE HEIC]
            /\ pc' = [pc EXCEPT ![r] = "ci_read"]
            /\ resp' = resp
    /\ UNCHANGED <<env, warned, loop, traceVars, entry, mime, data, diskVars, procVars,
                   exc, result>>

\* lines 85-93: the read completes, tracemalloc.start(), convert_to_avif is called
CiRead(r) ==
    /\ pc[r] = "ci_read"
    /\ loop = 0
    /\ loop' = r
    /\ tracing' = TRUE
    /\ tstart' = [tstart EXCEPT ![r] = @ + 1]
    /\ tstop' = tstop
    /\ pc' = [pc EXCEPT ![r] = "cta_start"]
    /\ UNCHANGED <<env, warned, inputVars, diskVars, procVars, exc, result, resp>>

\* lines 94-127: the except clause (HTTP 500) or the success response
CiAfter(r) ==
    /\ pc[r] = "ci_after" /\ loop = r
    /\ IF StopsTracing(exc[r])
       THEN tracing' = FALSE /\ tstop' = [tstop EXCEPT ![r] = @ + 1]
       ELSE UNCHANGED <<tracing, tstop>>
    /\ tstart' = tstart
    /\ resp' = [resp EXCEPT ![r] = ConvertResponse(exc[r], result[r])]
    /\ loop' = 0
    /\ pc' = [pc EXCEPT ![r] = "done"]
    /\ UNCHANGED <<env, warned, inputVars, diskVars, procVars, exc, result>>

(***************************************************************************)
(* converter.py: convert_to_avif                                           *)
(***************************************************************************)
\* lines 199-222: logging, then the dispatch on file_type.lower()
CtaStart(r) ==
    /\ \/ pc[r] = "cta_start" /\ loop = r /\ loop' = loop
       \/ pc[r] = "ready" /\ entry[r] = "convert_to_avif" /\ loop = 0 /\ loop' = r
    /\ LET kind == Dispatch(tag[r]) IN
         IF kind = "jpeg" THEN pc' = [pc EXCEPT ![r] = "jpeg_enter"] /\ exc' = exc
         ELSE IF kind = "heic" THEN pc' = [pc EXCEPT ![r] = "heic_enter"] /\ exc' = exc
         ELSE /\ exc' = [exc EXCEPT ![r] = "ValueError"]
              /\ pc' = [pc EXCEPT ![r] = "cta_finish"]
    /\ UNCHANGED <<env, warned, traceVars, inputVars, diskVars, procVars, result, resp>>

\* lines 224-234 (the result is returned) or 236-256 (the exception is logged and
\* raised again): the call ends
CtaFinish(r) ==
    /\ pc[r] = "cta_finish" /\ Holds(r)
    /\ IF entry[r] = "convert_image"
       THEN pc' = [pc EXCEPT ![r] = "ci_after"] /\ loop' = loop
       ELSE pc' = [pc EXCEPT ![r] = "done"] /\ loop' = 0
    /\ warned' = [warned EXCEPT ![r] =
                   IF exc[r] # "none" THEN LowMemoryWarning(availMB) ELSE @]
    /\ UNCHANGED <<env, traceVars, inputVars, diskVars, procVars, exc,
                   result, resp>>

(***************************************************************************)
(* Steps the two pipelines share                                           *)
(***************************************************************************)
\* `with tempfile.TemporaryDirectory() as tmpdir`: the directory is created, or
\* its creation fails and the with block is never entered
EnterTempDir(r, here, next) ==
    /\ pc[r] = here /\ Holds(r)
    /\ IF ~FailsAt("mkdtemp")
       THEN /\ exists' = [exists EXCEPT ![r] = TRUE]
            /\ mk' = [mk EXCEPT ![r] = @ + 1]
            /\ pc' = [pc EXCEPT ![r] = next]
            /\ exc' = exc
       ELSE /\ exc' = [exc EXCEPT ![r] = RaisedAt("mkdtemp")]
            /\ pc' = [pc EXCEPT ![r] = "cta_finish"]
            /\ UNCHANGED <<exists, mk>>
    /\ UNCHANGED <<env, warned, loop, traceVars, inputVars, rm, files, written, procVars,
                   result, resp>>

\* input_path.write_bytes(data): the file is written; or open() fails and there
\* is no file; or write() fails and leaves the file open() created, empty
WriteInput(r, here, name, next, exit) ==
    /\ pc[r] = here /\ Holds(r)
    /\ IF FailsAt("open")
       THEN /\ exc' = [exc EXCEPT ![r] = RaisedAt("open")]
            /\ pc' = [pc EXCEPT ![r] = exit]
            /\ UNCHANGED <<files, written>>
       ELSE IF FailsAt("write")
       THEN /\ exc' = [exc EXCEPT ![r] = RaisedAt("write")]
            /\ pc' = [pc EXCEPT ![r] = exit]
            /\ files' = [files EXCEPT ![r] = @ \cup {<<name, NoBytes>>}]
            /\ written' = written
       ELSE /\ files' = [files EXCEPT ![r] = @ \cup {<<name, Raw(data[r])>>}]
            /\ written' = [written EXCEPT ![r] = @ \cup {name}]
            /\ pc' = [pc EXCEPT ![r] = next]
            /\ exc' = exc
    /\ UNCHANGED <<env, warned, loop, traceVars, inputVars, exists, mk, rm, procVars,
                   result, resp>>

\* A stage is called: the executor's name is looked up (NameError if the module
\* has no such name), then the executor is entered with the stage's command
CallStage(r, stage, after) ==
    IF stage.via \in DefinedNames
    THEN /\ attempts' = [attempts EXCEPT ![r] = Append(@, stage)]
         /\ pc' = [pc EXCEPT ![r] = "mon_popen"]
         /\ exc' = exc
    ELSE /\ exc' = [exc EXCEPT ![r] = "NameError"]
         /\ pc' = [pc EXCEPT ![r] = after]
         /\ attempts' = attempts

\* The with block is left: TemporaryDirectory.__exit__ removes the directory
\* with what is in it; or the removal (shutil.rmtree) fails at its first step,
\* the directory stays as it is, and the OSError of the removal takes the place
\* of the exception in flight or of the value returned
ExitTempDir(r, here) ==
    /\ pc[r] = here /\ Holds(r)
    /\ IF Cleanup(exc[r])
       THEN IF ~FailsAt("rmtree")
            THEN /\ exists' = [exists EXCEPT ![r] = FALSE]
                 /\ rm' = [rm EXCEPT ![r] = @ + 1]
                 /\ files' = [files EXCEPT ![r] = {}]
                 /\ UNCHANGED <<exc, result>>
            ELSE /\ exc' = [exc EXCEPT ![r] = RaisedAt("rmtree")]
                 /\ result' = [result EXCEPT ![r] = NoBytes]
                 /\ UNCHANGED <<exists, rm, files>>
       ELSE UNCHANGED <<exists, rm, files, exc, result>>
    /\ pc' = [pc EXCEPT ![r] = "cta_finish"]
    /\ UNCHANGED <<env, warned, loop, traceVars, inputVars, mk, written, procVars,
                   resp>>

\* The end of a pipeline: output_path.read_bytes(), then the size of the output
\* and the compression are logged, which raises when input_size is 0.0, and the
\* bytes are returned
ReadOutput(r, name, exit) ==
    /\ IF HasFile(files[r], name)
       THEN LET output_data == ReadFile(files[r], name)
                input_size == get_file_size_mb(Len(data[r]))
                output_size == get_file_size_mb(ByteLen(output_data))
            IN \E c \in Compression(output_size, input_size) :
                 IF c.raises = "none"
                 THEN /\ result' = [result EXCEPT ![r] = output_data]
                      /\ exc' = exc
                 ELSE /\ exc' = [exc EXCEPT ![r] = c.raises]
                      /\ result' = result
       ELSE /\ exc' = [exc EXCEPT ![r] = "FileNotFoundError"]
            /\ result' = result
    /\ pc' = [pc EXCEPT ![r] = exit]

(***************************************************************************)
(* converter.py: monitor_subprocess_memory                                 *)
(***************************************************************************)
\* Where the executor returns to
ReturnSite(r) == IF Dispatch(tag[r]) = "jpeg" THEN "jpeg_after" ELSE "heic_after"

\* lines 54-61: subprocess.Popen(cmd, **kwargs)
MonPopen(r) ==
    /\ pc[r] = "mon_popen" /\ Holds(r)
    /\ LET stage == attempts[r][Len(attempts[r])]
           out == Popen(stage.kwargs, host[stage.exe])
       IN IF out = "launched"
          THEN /\ launched' = [launched EXCEPT ![r] = Append(@, stage)]
               /\ pc' = [pc EXCEPT ![r] = "mon_poll"]
               /\ exc' = exc
          ELSE /\ exc' = [exc EXCEPT ![r] = out]
               /\ pc' = [pc EXCEPT ![r] = "mon_except"]
               /\ launched' = launched
    /\ UNCHANGED <<env, warned, loop, traceVars, inputVars, diskVars, attempts, result,
                   resp>>

\* lines 88-91: the exception is logged and raised again
MonExcept(r) ==
    /\ pc[r] = "mon_except" /\ Holds(r)
    /\ pc' = [pc EXCEPT ![r] = ReturnSite(r)]
    /\ UNCHANGED <<env, warned, loop, traceVars, inputVars, diskVars, procVars, exc,
                   result, resp>>

(***************************************************************************)
(* converter.py: convert_jpeg_to_avif                                      *)
(***************************************************************************)
\* lines 93-100
JpegEnter(r) == EnterTempDir(r, "jpeg_enter", "jpeg_write")

\* lines 102-110
JpegWrite(r) == WriteInput(r, "jpeg_write", JpegStage.input, "jpeg_stage", "jpeg_exit")

\* lines 112-116: the avifenc stage is handed to the executor
JpegCallStage(r) ==
    /\ pc[r] = "jpeg_stage" /\ Holds(r)
    /\ CallStage(r, JpegStage, "jpeg_after")
    /\ UNCHANGED <<env, warned, loop, traceVars, inputVars, diskVars, launched, result,
                   resp>>

\* lines 117-134: the executor has returned or raised
JpegAfterStage(r) ==
    /\ pc[r] = "jpeg_after" /\ Holds(r)
    /\ IF exc[r] = "none"
       THEN ReadOutput(r, JpegStage.output, "jpeg_exit")
       ELSE /\ pc' = [pc EXCEPT ![r] = JpegOnStageError(exc[r])]
            /\ UNCHANGED <<exc, result>>
    /\ UNCHANGED <<env, warned, loop, traceVars, inputVars, diskVars, procVars, resp>>

\* line 98, on the way out
JpegExit(r) == ExitTempDir(r, "jpeg_exit")

(***************************************************************************)
(* converter.py: convert_heic_to_avif_cli                                  *)
(***************************************************************************)
\* lines 136-144
HeicEnter(r) == EnterTempDir(r, "heic_enter", "heic_write")

\* lines 146-154
HeicWrite(r) ==
    WriteInput(r, "heic_write", HeicDecodeStage.input, "heic_stage", "heic_exit")

\* lines 156-160: the ImageMagick stage is handed to the executor
HeicCallDecode(r) ==
    /\ pc[r] = "heic_stage" /\ Holds(r)
    /\ CallStage(r, HeicDecodeStage, "heic_after")
    /\ UNCHANGED <<env, warned, loop, traceVars, inputVars, diskVars, launched, result,
                   resp>>

\* lines 161-197: a stage call has returned or raised.  After the decode stage
\* the encode stage is called; after the encode stage the output is read.
HeicAfterStage(r) ==
    /\ pc[r] = "heic_after" /\ Holds(r)
    /\ IF exc[r] # "none"
       THEN /\ exc' = [exc EXCEPT ![r] = HeicOnStageError(@)]
            /\ pc' = [pc EXCEPT ![r] = "heic_exit"]
            /\ UNCHANGED <<attempts, result>>
       ELSE IF Len(attempts[r]) = 1
       THEN /\ CallStage(r, HeicEncodeStage, "heic_after")
            /\ result' = result
       ELSE /\ ReadOutput(r, HeicEncodeStage.output, "heic_exit")
            /\ attempts' = attempts
    /\ UNCHANGED <<env, warned, loop, traceVars, inputVars, diskVars, launched, resp>>

\* line 141, on the way out
HeicExit(r) == ExitTempDir(r, "heic_exit")

(***************************************************************************)
(* The service                                                             *)
(***************************************************************************)
Next ==
    \/ \E r \in Requests :
         \/ Arrive(r)
         \/ HcProbe(r) \/ HcReturn(r)
         \/ CiStart(r) \/ CiRead(r) \/ CiAfter(r)
         \/ CtaStart(r) \/ CtaFinish(r)
         \/ MonPopen(r) \/ MonExcept(r)
         \/ JpegEnter(r) \/ JpegWrite(r) \/ JpegCallStage(r) \/ JpegAfterStage(r)
         \/ JpegExit(r)
         \/ HeicEnter(r) \/ HeicWrite(r) \/ HeicCallDecode(r) \/ HeicAfterStage(r)
         \/ HeicExit(r)

Spec == Init /\ [][Next]_vars

(***************************************************************************)
(* converter.py: monitor_subprocess_memory, called on its own              *)
(*                                                                         *)
(* The executor is a function of its module: it can be called with any     *)
(* keyword arguments, which it hands on to subprocess.Popen.  The child     *)
(* runs beside the caller; what it writes to a captured stream goes into a  *)
(* pipe of bounded capacity, which the caller reads in communicate() only.  *)
(***************************************************************************)
\* The capacity of a pipe, and the most a child writes (more than a pipe holds)
PipeCap == 2
MaxOutput == PipeCap + 1
\* The values get_memory_usage() can return
MaxMem == 3
MemSamples == 1..MaxMem

\* Keyword arguments: those of the two call sites of converter.py, and those
\* Popen accepts (the streams captured as bytes, as text, or not captured)
KwargSets == { {"capture_output", "text", "check"},
               {"capture_output", "check"},
               {"stdout", "stderr"},
               {"stdout", "stderr", "text"},
               {} }

\* stderr=subprocess.PIPE was passed
Captured(kwargs) == "stderr" \in kwargs

\* What can interrupt the loop: the sample raises, or the sleep is interrupted
Interrupts == {"psutil.Error", "KeyboardInterrupt"}

\* `except Exception` catches the exception (KeyboardInterrupt is not an Exception)
CaughtByExcept(e) == e # "KeyboardInterrupt"

MaxUpdateTakeCurrent(max, cur) == cur

\* lines 66-68: `if current_memory > max_memory: max_memory = current_memory`
MaxUpdate(max, cur) == IF cur > max THEN cur ELSE max

\* lines 81-84: the exception of a run that exited non-zero.  stderr.decode() is
\* evaluated when stderr is not empty, and a str (text=True) has no decode.
NonZeroExit(kwargs, stderr) ==
    IF Captured(kwargs) /\ stderr > 0 /\ "text" \in kwargs THEN "AttributeError"
    ELSE "CalledProcessError"

\* The largest element of a non-empty set of numbers
SetMax(S) == CHOOSE x \in S : \A y \in S : y <= x

\* A caller is about to call the executor with a command and keyword arguments;
\* the program it names writes some amount to its error stream, then exits.
InitMonitor ==
    /\ host \in {h \in Hosts : h["convert"] = Ok}
    /\ fs = {}
    /\ availMB = 100
    /\ ServiceIdle
    /\ SizesIdle
    /\ mpc = "called"
    /\ mcmd = "avifenc"
    /\ mkw \in KwargSets
    /\ \E n \in 0..MaxOutput : child = [NoChild EXCEPT !.left = n]
    /\ pipe = 0 /\ current = 0 /\ maxMemory = 0 /\ samples = {} /\ mexc = "none"
    /\ mret = NoReturn

\* An exception e is raised at the present position of the executor
Interrupt(e) ==
    /\ mexc' = e
    /\ mpc' = IF CaughtByExcept(e) THEN "except" ELSE "raised"

\* lines 59-64: subprocess.Popen(cmd, **kwargs), then the first sample
RunPopen ==
    /\ mpc = "called"
    /\ LET out == Popen(mkw, host[mcmd]) IN
         IF out = "launched"
         THEN /\ child' = [child EXCEPT !.state = "running", !.code = host[mcmd].code]
              /\ \/ \E m \in MemSamples :
                      /\ maxMemory' = m
                      /\ samples' = samples \cup {m}
                      /\ mpc' = "poll"
                      /\ mexc' = mexc
                 \/ /\ Interrupt("psutil.Error")
                    /\ UNCHANGED <<maxMemory, samples>>
         ELSE /\ mexc' = out
              /\ mpc' = "except"
              /\ UNCHANGED <<child, maxMemory, samples>>
    /\ UNCHANGED <<host, fs, availMB, svcVars, sizeVars, mcmd, mkw, pipe, current, mret>>

\* lines 65-71: one turn of `while process.poll() is None`: the loop is left when
\* the child has exited, otherwise a sample is taken and the caller sleeps
RunPoll ==
    /\ mpc = "poll"
    /\ IF child.state = "exited"
       THEN /\ mpc' = "communicate"
            /\ UNCHANGED <<current, maxMemory, samples, mexc>>
       ELSE \/ \E m \in MemSamples :
                 /\ current' = m
                 /\ maxMemory' = MaxUpdate(maxMemory, m)
                 /\ samples' = samples \cup {m}
                 /\ UNCHANGED <<mpc, mexc>>
            \/ \E e \in Interrupts :
                 /\ Interrupt(e)
                 /\ UNCHANGED <<current, maxMemory, samples>>
    /\ UNCHANGED <<host, fs, availMB, svcVars, sizeVars, mcmd, mkw, child, pipe, mret>>

\* lines 73-86: communicate() reads what is in the pipe; a non-zero return code
\* raises, otherwise a CompletedProcess is returned
RunCommunicate ==
    /\ mpc = "communicate"
    /\ pipe' = 0
    /\ IF child.code # 0
       THEN mexc' = NonZeroExit(mkw, pipe) /\ mpc' = "except"
       ELSE mexc' = mexc /\ mpc' = "returned"
    /\ mret' = IF mexc' \in {"none", "CalledProcessError"}
               THEN [returncode |-> child.code, cmd |-> mcmd, stderr |-> pipe]
               ELSE mret
    /\ UNCHANGED <<host, fs, availMB, svcVars, sizeVars, mcmd, mkw, child, current,
                   maxMemory, samples>>

\* lines 88-91: the exception is logged and raised again
RunExcept ==
    /\ mpc = "except"
    /\ mpc' = "raised"
    /\ UNCHANGED <<host, fs, availMB, svcVars, sizeVars, mcmd, mkw, child, pipe, current,
                   maxMemory, samples, mexc, mret>>

\* The child writes to its error stream: into the pipe when the stream is
\* captured, and then only while the pipe has room
ChildWrite ==
    /\ child.state = "running" /\ child.left > 0
    /\ Captured(mkw) => pipe < PipeCap
    /\ child' = [child EXCEPT !.left = @ - 1]
    /\ pipe' = IF Captured(mkw) THEN pipe + 1 ELSE pipe
    /\ UNCHANGED <<host, fs, availMB, svcVars, sizeVars, mpc, mcmd, mkw, current,
                   maxMemory, samples, mexc, mret>>

\* The child has written all its output and exits
ChildExit ==
    /\ child.state = "running" /\ child.left = 0
    /\ child' = [child EXCEPT !.state = "exited"]
    /\ UNCHANGED <<host, fs, availMB, svcVars, sizeVars, mpc, mcmd, mkw, pipe, current,
                   maxMemory, samples, mexc, mret>>

NextMonitor ==
    \/ RunPopen \/ RunPoll \/ RunCommunicate \/ RunExcept
    \/ ChildWrite \/ ChildExit

SpecMonitor == InitMonitor /\ [][NextMonitor]_vars

\* The call of the executor has ended
RunEnded == mpc \in {"returned", "raised"}

\* Two properties the text of the executor does not have once a child is
\* launched, that is for keyword arguments Popen accepts (no call site of
\* converter.py passes such: with theirs RunPopen raises TypeError, no child is
\* launched and both hold).
\* When a call of the executor ends, by a return or by an exception, the child
\* process it launched is not running any more.
ChildGoneWhenRunEnds ==
    RunEnded => child.state # "running"

\* While the caller is in its poll loop and the child is alive, the child can
\* take its next step (write or exit): the caller, which reads the pipe only
\* after the child's exit, never has the child waiting for it.
ChildNeverBlocked ==
    mpc = "poll" /\ child.state = "running" => ENABLED (ChildWrite \/ ChildExit)

\* C15: max_memory never decreases during a run, and from the first sample on
\* it is the maximum of all the samples taken so far, so also when the run ends.
C15_PeakIsMaxOfSamples ==
    /\ [](samples # {} => maxMemory = SetMax(samples))
    /\ [](samples = {} => maxMemory = 0)
    /\ [][maxMemory' >= maxMemory]_vars

\* C15 witness: a run has returned after a sample below the peak was taken in
\* the loop
C15_Witness ==
    /\ mpc = "returned" /\ Cardinality(samples) >= 2
    /\ current # 0 /\ current < maxMemory /\ maxMemory = SetMax(samples)

(***************************************************************************)
(* converter.py: the sizes and the compression ratio of a conversion       *)
(***************************************************************************)
\* Lengths of inputs and of output artifacts, in bytes: around the least length
\* that rounds to 0.01 MB, at ties of the two roundings, and some megabytes
InputLens == {0, 1, 5242, 5243, 131072, 393216, 503316, MB, 2 * MB}
OutputLens == {0, 5243, 131072, 283116, 524288, 3 * MB}

\* The sizes and the ratio computed on their own, for an input and an output
\* artifact of some lengths
InitSizes ==
    /\ host \in {h \in Hosts : h["avifenc"] = Ok /\ h["convert"] = Ok}
    /\ fs = {}
    /\ availMB = 100
    /\ ServiceIdle
    /\ MonitorIdle
    /\ spc = "start"
    /\ inLen \in InputLens
    /\ outLen \in OutputLens
    /\ inputSize = -1 /\ outputSize = -1 /\ ratio = 0 /\ sexc = "none"

\* lines 95, 138, 201: input_size = get_file_size_mb(data)
SizeOfInput ==
    /\ spc = "start"
    /\ inputSize' = get_file_size_mb(inLen)
    /\ spc' = "converted"
    /\ UNCHANGED <<host, fs, availMB, svcVars, monVars, inLen, outLen, outputSize, ratio,
                   sexc>>

\* lines 130, 193, 229: output_size = get_file_size_mb(output_data)
SizeOfOutput ==
    /\ spc = "converted"
    /\ outputSize' = get_file_size_mb(outLen)
    /\ spc' = "sized"
    /\ UNCHANGED <<host, fs, availMB, svcVars, monVars, inLen, outLen, inputSize, ratio,
                   sexc>>

\* lines 131, 194, 232: the compression is logged, or its computation raises
LogCompression ==
    /\ spc = "sized"
    /\ \E c \in Compression(outputSize, inputSize) :
         /\ sexc' = c.raises
         /\ ratio' = c.tenths
         /\ spc' = IF c.raises = "none" THEN "logged" ELSE "raised"
    /\ UNCHANGED <<host, fs, availMB, svcVars, monVars, inLen, outLen, inputSize,
                   outputSize>>

NextSizes == SizeOfInput \/ SizeOfOutput \/ LogCompression

SpecSizes == InitSizes /\ [][NextSizes]_vars

\* A property lines 131, 194 and 232 do not have (no conversion of the service
\* gets as far as these lines: its stage raises TypeError first).
\* For every input length, small ones included, the sizes and the ratio are
\* computed without an exception: the computation ends with the ratio logged,
\* never with a failure.
RatioNeverRaises ==
    /\ sexc = "none"
    /\ spc # "raised"

(***************************************************************************)
(* Vocabulary of the properties                                            *)
(***************************************************************************)
\* convert_to_avif has been called for request r
Called(r) ==
    \/ InConversion(r) /\ pc[r] # "ready"
    \/ pc[r] = "ci_after"
    \/ pc[r] = "done" /\ entry[r] = "convert_to_avif"
    \/ pc[r] = "done" /\ entry[r] = "convert_image" /\ resp[r].code # 400

\* ... and the call has returned or raised
CallEnded(r) == Called(r) /\ pc[r] \in {"ci_after", "done"}

SupportedTag(r) == Lower(tag[r]) \in {JPEG, HEIC}
IsJpeg(r) == Lower(tag[r]) = JPEG
IsHeic(r) == Lower(tag[r]) = HEIC

\* The input file of the request is in place: the request is Staged
Staged(r) == mk[r] = 1 /\ written[r] # {}

\* The stages of a pipeline in the order of its source
PlanOf(r) == IF IsJpeg(r) THEN <<JpegStage>> ELSE <<HeicDecodeStage, HeicEncodeStage>>

IsPrefix(s, t) == Len(s) <= Len(t) /\ \A i \in 1..Len(s) : s[i] = t[i]

\* C1: for a supported tag and on every outcome, the scratch directory of the
\* call is gone when the call ends, and it was removed exactly once (and at no
\* time more often than it was created).
C1_ScratchReleasedOnce ==
    \A r \in Requests :
        /\ rm[r] <= mk[r] /\ mk[r] <= 1
        /\ CallEnded(r) /\ SupportedTag(r) =>
              ~exists[r] /\ files[r] = {} /\ rm[r] = mk[r]

\* C2: a call of convert_to_avif with a tag that is neither jpeg nor heic in any
\* letter case never leaves the start of the call: no scratch directory, no file,
\* no stage, no process, and it ends with the input error (ValueError).
C2_UnsupportedNoSideEffects ==
    \A r \in Requests :
        entry[r] = "convert_to_avif" /\ ~SupportedTag(r) =>
            /\ mk[r] = 0 /\ ~exists[r] /\ written[r] = {} /\ files[r] = {}
            /\ attempts[r] = <<>> /\ launched[r] = <<>>
            /\ pc[r] \in {"ready", "cta_finish", "done"}
            /\ pc[r] \in {"cta_finish", "done"} => exc[r] = "ValueError"

\* C2 witness: a call with an unsupported tag has ended with the input error
C2_Witness ==
    \E r \in Requests :
        entry[r] = "convert_to_avif" /\ ~SupportedTag(r) /\ pc[r] = "done"
        /\ exc[r] = "ValueError"

\* C3: a call with a supported tag whose input was staged, on a host where
\* every tool of the plan runs and exits 0, ends Completed and returns the
\* bytes of the output artifact.
C3_SuccessReturnsOutput ==
    \A r \in Requests :
        ( /\ CallEnded(r) /\ SupportedTag(r) /\ Staged(r)
          /\ \A i \in 1..Len(PlanOf(r)) : host[PlanOf(r)[i].exe] = Ok )
        => exc[r] = "none" /\ result[r] # NoBytes

\* C4: a heic call whose decode tool runs and exits 0 goes on to the encode
\* stage, whose input is the bridge artifact the decode stage wrote.
C4_DecodeThenEncode ==
    \A r \in Requests :
        CallEnded(r) /\ IsHeic(r) /\ Staged(r) /\ host["convert"] = Ok =>
            /\ Len(attempts[r]) >= 2
            /\ attempts[r][1].exe = "convert"
            /\ attempts[r][2].exe = "avifenc"
            /\ attempts[r][2].input = attempts[r][1].output

\* C5: a jpeg call hands at most one stage to the executor and starts at most
\* one process; the stage is avifenc reading the staged input file and writing
\* the output artifact, and a call that staged its input has run exactly it.
C5_JpegOneStage ==
    \A r \in Requests :
        IsJpeg(r) =>
            /\ Len(attempts[r]) <= 1 /\ Len(launched[r]) <= 1
            /\ \A i \in 1..Len(attempts[r]) :
                  /\ attempts[r][i].exe = "avifenc"
                  /\ attempts[r][i].input \in written[r]
                  /\ attempts[r][i].output = "output.avif"
            /\ IsPrefix(launched[r], attempts[r])
            /\ CallEnded(r) /\ Staged(r) => Len(attempts[r]) = 1

\* C5 witness: a jpeg call has ended after handing its one stage to the executor
C5_Witness ==
    \E r \in Requests :
        CallEnded(r) /\ IsJpeg(r) /\ Staged(r) /\ Len(attempts[r]) = 1

\* C6: the stages are run in the order of the plan, each at most once; once a
\* stage has failed the call stays failed, no further stage is handed to the
\* executor, no process is started, and the call returns no result.
C6_InOrderNoRetry ==
    /\ [](\A r \in Requests :
            /\ Called(r) /\ SupportedTag(r) => IsPrefix(attempts[r], PlanOf(r))
            /\ IsPrefix(launched[r], attempts[r])
            /\ exc[r] # "none" => result[r] = NoBytes /\ ~resp[r].success)
    /\ [][\A r \in Requests :
            exc[r] # "none" =>
                /\ exc'[r] # "none"
                /\ attempts'[r] = attempts[r]
                /\ launched'[r] = launched[r]]_vars

\* C6 witness: a heic call whose decode stage failed has ended: the encode
\* stage was not run and nothing was returned
C6_Witness ==
    \E r \in Requests :
        CallEnded(r) /\ IsHeic(r) /\ attempts[r] = <<HeicDecodeStage>>
        /\ exc[r] # "none" /\ result[r] = NoBytes

\* C7: the failure of a stage whose executable is missing (environment error)
\* is told apart from the failure of a stage that ran and exited non-zero
\* (stage failure): the two cases end with exceptions of different kinds.
C7_MissingToolDistinguished ==
    \A r \in Requests :
        CallEnded(r) /\ attempts[r] # <<>> =>
            LET b == host[attempts[r][Len(attempts[r])].exe] IN
            /\ ~b.present => exc[r] = "FileNotFoundError"
            /\ b.present /\ b.code # 0 => exc[r] \in {"CalledProcessError", "RuntimeError"}

\* C8: with avifenc absent from the host, a call with a supported tag that got
\* as far as its encode stage ends with the environment error (the executable
\* was not found), raised while the scratch directory still existed.
C8_EnvErrorBeforeRelease ==
    \A r \in Requests :
        ( /\ ~host["avifenc"].present
          /\ Called(r) /\ SupportedTag(r) /\ Staged(r)
          /\ IsHeic(r) => host["convert"] = Ok
          /\ pc[r] \in {"cta_finish", "ci_after", "done"} )
        => exc[r] = "FileNotFoundError" /\ rm[r] = 1

\* C9: the probe reports avifenc available exactly when the probe process was
\* launched, ended within the timeout and exited 0; the status is healthy
\* exactly then; the probe ends with a response, never with an exception, and
\* creates no scratch directory and runs no stage.
C9_HealthProbe ==
    \A r \in Requests :
        entry[r] = "health_check" =>
            /\ mk[r] = 0 /\ written[r] = {} /\ attempts[r] = <<>> /\ launched[r] = <<>>
            /\ exc[r] = "none"
            /\ pc[r] \in {"hc_return", "done"} =>
                  resp[r].avifenc = ( /\ host["avifenc"].present
                                      /\ host["avifenc"].secs <= HealthTimeout
                                      /\ host["avifenc"].code = 0 )
            /\ pc[r] = "done" =>
                  /\ resp[r].code = 200
                  /\ resp[r].detail = IF resp[r].avifenc THEN "healthy" ELSE "unhealthy"

\* C9 witness: a probe of a host whose avifenc does not answer within the
\* timeout has returned unhealthy
C9_Witness ==
    \E r \in Requests :
        entry[r] = "health_check" /\ pc[r] = "done" /\ host["avifenc"] = Slow
        /\ resp[r].code = 200 /\ resp[r].detail = "unhealthy"

\* C10: while one request of the service is inside its conversion, another
\* request of the service that is waiting to run can take its next step.
C10_NoSerialization ==
    \A a, b \in Requests :
        ( /\ a # b
          /\ entry[a] = "convert_image" /\ InConversion(a)
          /\ entry[b] \in {"convert_image", "health_check"}
          /\ pc[b] \in {"ready", "ci_read"} )
        => ENABLED (HcProbe(b) \/ CiStart(b) \/ CiRead(b))

\* What convert_to_avif hands to its caller: the bytes it returns (line 234) or
\* the exception it raises again as it is (line 256).  The memory figures go to
\* the log; neither the bytes nor the exception carries a warning.
Outcome(e, bytes, available) == [raised |-> e, returned |-> bytes, warnings |-> {}]

\* C12: when available system memory is below 100 MB as a conversion ends, the
\* outcome handed to the caller carries a low-memory warning, whatever the
\* outcome is.
C12_WarningOnOutcome ==
    \A r \in Requests :
        CallEnded(r) /\ availMB < 100 =>
            Outcome(exc[r], result[r], availMB).warnings # {}

\* C13: a POST /convert with a content type other than image/jpeg and
\* image/heic is answered 400 and starts no conversion; a conversion that
\* raised is answered 500; a response says success only when convert_to_avif
\* returned bytes, and then carries them.
C13_HttpStatus ==
    \A r \in Requests :
        entry[r] = "convert_image" =>
            /\ mime[r] \notin {"image/jpeg", "image/heic"} =>
                  /\ pc[r] \in {"ready", "done"}
                  /\ mk[r] = 0 /\ attempts[r] = <<>> /\ tstart[r] = 0
                  /\ pc[r] = "done" => resp[r].code = 400 /\ ~resp[r].success
            /\ pc[r] = "done" /\ exc[r] # "none" =>
                  resp[r].code = 500 /\ ~resp[r].success
            /\ resp[r].success =>
                  /\ exc[r] = "none" /\ result[r] # NoBytes
                  /\ resp[r].content = B64(result[r])

\* C13 witness: a request whose conversion raised has been answered 500
C13_Witness ==
    \E r \in Requests :
        entry[r] = "convert_image" /\ pc[r] = "done" /\ exc[r] = "TypeError"
        /\ resp[r].code = 500

\* C17: a call whose last stage ran a tool that exits non-zero ends with the
\* failure of that stage: the stage was launched, and the exception is the one
\* that names it and carries its exit code and stderr (CalledProcessError for
\* the jpeg stage, the RuntimeError made from it for a heic stage).
C17_StageFailureIdentified ==
    \A r \in Requests :
        CallEnded(r) /\ attempts[r] # <<>> =>
            LET stage == attempts[r][Len(attempts[r])] IN
            host[stage.exe].present /\ host[stage.exe].code # 0 =>
                /\ launched[r] = attempts[r]
                /\ exc[r] = IF IsJpeg(r) THEN "CalledProcessError" ELSE "RuntimeError"

\* A request is between its tracemalloc.start() and its tracemalloc.stop()
Between(r) == tstart[r] > tstop[r]

\* C18: a request starts tracing at most once and has stopped it as often as
\* it started it when its handler ends; at most one request is between its
\* start and its stop, tracing is on exactly then, and no other request starts
\* or stops tracing meanwhile.
C18_TracingBalanced ==
    /\ [](\A r \in Requests :
            /\ tstop[r] <= tstart[r] /\ tstart[r] <= 1
            /\ pc[r] = "done" => tstop[r] = tstart[r]
            /\ Between(r) => tracing /\ \A q \in Requests \ {r} : ~Between(q))
    /\ [](tracing => \E r \in Requests : Between(r))
    /\ [][\A a, b \in Requests :
            a # b /\ Between(a) =>
                tstart'[b] = tstart[b] /\ tstop'[b] = tstop[b]]_vars

\* C18 witness: a request whose conversion raised has ended with tracing started
\* once and stopped once, after another request had arrived
C18_Witness ==
    \E a, b \in Requests :
        /\ a # b /\ entry[a] = "convert_image" /\ pc[a] = "done" /\ exc[a] # "none"
        /\ tstart[a] = 1 /\ tstop[a] = 1 /\ ~tracing
        /\ entry[b] = "convert_image" /\ pc[b] = "ci_read"

\* C19 (as claimed): when the probe reports healthy, avifenc and the
\* ImageMagick convert tool are both available on the host.
C19_HealthyMeansAllTools ==
    \A r \in Requests :
        entry[r] = "health_check" /\ pc[r] = "done" /\ resp[r].detail = "healthy" =>
            /\ host["avifenc"].present /\ host["avifenc"].code = 0
            /\ host["convert"].present /\ host["convert"].code = 0

\* C19 (amended): when the probe reports healthy, avifenc is on the host, answers
\* within the timeout and exits 0; the probe says nothing about convert.
C19_HealthyMeansAvifenc ==
    \A r \in Requests :
        entry[r] = "health_check" /\ pc[r] = "done" /\ resp[r].detail = "healthy" =>
            host["avifenc"] = Ok

\* C19 witness: a healthy report on a host without the convert tool
C19_Witness ==
    \E r \in Requests :
        /\ entry[r] = "health_check" /\ pc[r] = "done" /\ resp[r].detail = "healthy"
        /\ host["avifenc"] = Ok /\ ~host["convert"].present
====
